---------------------------- MODULE Spec2Model ----------------------------
(***************************************************************************)
(* Streaming grid pipeline: StreamingService (connection, retry, topic     *)
(* stream) and StreamingGridComponent (debounce, 100 ms batching, merge    *)
(* into rowData$, grid transaction).                                       *)
(*                                                                         *)
(* JavaScript values are written as string literals: "undefined" is an     *)
(* absent property, "0" is the number 0 (falsy), every other literal is    *)
(* truthy.  Timers (debounceTime(50), bufferTime(100), delay(...)) fire    *)
(* nondeterministically: each timer expiry is one action.                  *)
(***************************************************************************)
EXTENDS Integers, Sequences, FiniteSets, TLC

\* ----------------------------------------------------------------- bounds
\* Number of raw messages the transport delivers in one run.
MaxMsgs == 3
\* Number of connect() calls made on the service besides ngOnInit's.
MaxConnects == 1

\* Longest query the user types.
MaxQueryLen == 3

\* Most lenders the tie-breaker dialog is given.
MaxLenders == 2

\* Most files staged for a commit.
MaxStaged == 2

\* Most saves of the tie-breaker order made on the lender page.
MaxSaves == 2

\* ------------------------------------------------------- program constants
\* (a.tieBreakerOrder || 999): the rank of a lender without an order.
UnsetOrderRank == 999
\* StreamingService.maxReconnectAttempts
maxReconnectAttempts == 5
\* delay(this.config.reconnectDelay || 1000)
DefaultReconnectDelay == 1000

\* ------------------------------------------------------------ JS values
Undefined == "undefined"
Falsy == {"undefined", "0"}
Truthy(v) == v \notin Falsy
\* a || b
JsOr(a, b) == IF Truthy(a) THEN a ELSE b

Fields == {"id", "key", "op", "price", "qty"}

\* { ...a, ...b }: own properties of b overwrite those of a, as a whole.
SpreadReplacing(a, b) == b

Spread(a, b) == [f \in Fields |-> IF b[f] # Undefined THEN b[f] ELSE a[f]]

\* update.id || update.key
IdOf(u) == JsOr(u.id, u.key)

\* ---------------------------------------------------------------- inputs
\* The identifying properties (id, key) a payload carries: none, key 0,
\* key 1.
IdentForms ==
  { <<Undefined, Undefined>>, <<Undefined, "0">>, <<Undefined, "1">> }

\* The rest of a payload: op and the columns it sets.
BodyForms ==
  { [op |-> "update", price |-> "10", qty |-> "5"],
    [op |-> "update", price |-> "12", qty |-> Undefined],
    [op |-> "remove", price |-> Undefined, qty |-> Undefined] }

Payloads ==
  { [id |-> i[1], key |-> i[2], op |-> b.op, price |-> b.price, qty |-> b.qty] :
      i \in IdentForms, b \in BodyForms }

SubscribedTopic == "your-kafka-topic"

\* What the transport delivers: every payload on the subscribed topic, and
\* one message of another topic.
Inbound ==
  { [topic |-> SubscribedTopic, payload |-> p] : p \in Payloads }
    \cup { [topic |-> "other-topic", payload |-> CHOOSE p \in Payloads : TRUE] }

\* The config literal of connectToStream.
ComponentConfig ==
  [reconnectAttempts |-> 5, reconnectDelay |-> 1000, bufferSize |-> 0]

\* StreamConfig values passed to connect(): the literal of connectToStream
\* and two others the interface admits (reconnectDelay 0 and bufferSize 0
\* stand for omitted properties).
Configs ==
  { ComponentConfig,
    [reconnectAttempts |-> 2, reconnectDelay |-> 100, bufferSize |-> 0],
    [reconnectAttempts |-> 2, reconnectDelay |-> 0, bufferSize |-> 1] }

\* The messages of the coarse runs: two payloads on the subscribed topic and
\* one message of another topic.
CoarsePayloads ==
  { [id |-> Undefined, key |-> "1", op |-> "update", price |-> "10", qty |-> "5"],
    [id |-> Undefined, key |-> "0", op |-> "update", price |-> "12",
     qty |-> Undefined] }

InboundCoarse ==
  { m \in Inbound : m.topic # SubscribedTopic \/ m.payload \in CoarsePayloads }

\* The messages of the statement-by-statement runs: the coarse ones and a
\* second update of key 1 that mentions the price only.
InboundFlush ==
  InboundCoarse \cup
    { m \in Inbound :
        /\ m.topic = SubscribedTopic
        /\ m.payload.key = "1" /\ m.payload.op = "update"
        /\ m.payload.qty = Undefined }

\* The filters the user applies: a column and the value it must equal.
FilterColumns == {"price"}

FilterValues == {"10", "12"}


VARIABLES
  \* StreamingService
  connectionStatus,   \* connectionStatus$.value
  reconnectAttempts,  \* this.reconnectAttempts
  rsocketClient,      \* TRUE when this.rsocketClient holds a client
  config,             \* this.config
  streamOpened,       \* setupConnectionHandlers has registered the stream's
                      \* onNext handler (close() does not unregister it)
  connState,          \* the connect() subscription: idle, waiting, done, cancelled
  seen,               \* values passed by take(maxReconnectAttempts)
  connects,           \* connect() calls made besides ngOnInit's
  stopped,            \* disconnect() has run since the last connect()
  \* StreamingGridComponent
  inited,             \* ngOnInit has run
  destroyed,          \* destroy$ has fired
  gridApi,            \* TRUE when this.gridApi is set
  rowData,            \* rowData$.value
  pending,            \* debounceTime's held value (length 0 or 1)
  buffer,             \* bufferTime's open buffer
                      \* (both hold [seq, data]: seq is the arrival number,
                      \* standing for the identity of the payload object)
  \* observations
  arrived,            \* number of raw messages delivered by the transport
  delivered,          \* arrival numbers the topic subscription delivered
  batched,            \* arrival numbers of all emitted batches, in order
  gridCalls,          \* number of grid transactions issued
  lastCall,           \* the last grid transaction: [op, rows]
  filterModel,        \* the grid's filter model: << >> (null) or one filter
  stream,             \* topics of the raw messages, in arrival order
  pc,                 \* "idle", or "merging" inside processBatchUpdates
  localMap,           \* the dataMap of the applyUpdatesToData in progress
  work,               \* the updates its forEach has still to visit
  before,             \* the table when the last flush began
  flushed,            \* the merged batch of the last flush
  observed,           \* the table as a reader last saw it
  delays,             \* delays that elapsed before each retry
  callerEvents,       \* what connect()'s subscriber received
  emitted,            \* values the last operation passed to
                      \* connectionStatus$.next
  disabled,           \* ButtonAtomComponent.disabled
  loading,            \* ButtonAtomComponent.loading
  query,              \* value of the 'query' control of the search form
  outputs,            \* events the last handler emitted on its @Outputs
  heap,               \* the Lender objects, by reference
  lenders,            \* @Input lenders of the tie-breaker dialog (references)
  orderedLenders,     \* TieBreakerDialogOrganismComponent.orderedLenders
                      \* (references)
  dialogInited,       \* the dialog's ngOnInit has run
  dialogGridApi,      \* the dialog's gridApi is set
  gridRows,           \* the row nodes of the dialog's grid, in display order
  initialOrder,       \* orderedLenders as ngOnInit left it (values)
  dragged,            \* a row drag has renumbered the rows
  scriptPc,           \* position of the test-changed-files script
  disk,               \* the files that exist in the working tree
  gitOk,              \* git diff --cached returned (FALSE: execSync threw)
  gitOutput,          \* the lines git diff --cached printed
  testsOk,            \* npm run test:ci succeeded (FALSE: execSync threw)
  stagedFiles,        \* stagedFiles of the script
  specFiles,          \* specFiles of the script
  missingTests,       \* missingTests of the script (the source files)
  testsRun,           \* number of times the script ran npm run test:ci
  exitCode,           \* << >> while the script runs, then << status >>
  pageInited,         \* LenderManagementComponent.ngOnInit has run
  allLenders,         \* LenderManagementComponent.allLenders
  showTieBreakerDialog, \* LenderManagementComponent.showTieBreakerDialog
  isSaving,           \* LenderManagementComponent.isSaving
  saves,              \* onSaveTieBreaker calls made so far
  tieBreakerOrderCache, \* LenderService.tieBreakerOrderCache
  putRequests,        \* PUT /api/lenders/tie-breaker-order requests in
                      \* flight: the lenders array of each
  getRequests,        \* number of GET /api/lenders requests in flight
  orderResult,        \* what getTieBreakerOrder() last returned
  formInited,         \* ngOnInit of the search form has run
  formDestroyed,      \* destroy$ of the search form has fired
  heldQuery,          \* the value debounceTime holds (length 0 or 1)
  lastValueChange,    \* the value distinctUntilChanged passed last, which
                      \* is the last valueChange event (length 0 or 1)
  lastAction

vars ==
  << connectionStatus, reconnectAttempts, rsocketClient, config, streamOpened,
     connState, seen, connects, stopped, inited, destroyed, gridApi, rowData,
     pending, buffer, arrived, stream, delivered, batched, gridCalls, lastCall,
     filterModel, pc, localMap, work, before, flushed, observed, delays,
     callerEvents, emitted, disabled, loading, query, outputs, heap, lenders,
     orderedLenders, dialogInited, dialogGridApi, gridRows, initialOrder,
     dragged,
     scriptPc, disk, gitOk, gitOutput, testsOk, stagedFiles, specFiles,
     missingTests, testsRun, exitCode, pageInited, allLenders,
     showTieBreakerDialog, isSaving, saves, tieBreakerOrderCache, putRequests,
     getRequests, orderResult, formInited, formDestroyed, heldQuery,
     lastValueChange, lastAction >>

serviceVars ==
  << connectionStatus, reconnectAttempts, rsocketClient, config, streamOpened,
     connState, seen, connects, stopped, delays, callerEvents >>

gridVars ==
  << gridApi, rowData, pending, buffer, delivered, batched, gridCalls, lastCall,
     filterModel >>


\* ------------------------------------------------------------- JS Map
\* A Map is the sequence of its entries in insertion order; an entry is
\* [keyed, k, v].  keyed = FALSE marks a key no other entry can equal
\* (Date.now() + Math.random()).
MapHas(m, k) == \E i \in 1..Len(m) : m[i].keyed /\ m[i].k = k

MapIndex(m, k) == CHOOSE i \in 1..Len(m) : m[i].keyed /\ m[i].k = k

MapGet(m, k) == m[MapIndex(m, k)].v

\* Map.set: an existing key keeps its position and takes the new value.
MapSet(m, k, v) ==
  IF MapHas(m, k)
    THEN [m EXCEPT ![MapIndex(m, k)].v = v]
    ELSE Append(m, [keyed |-> TRUE, k |-> k, v |-> v])

\* Map.set under a fresh random key: always a new entry.
MapSetFresh(m, v) == Append(m, [keyed |-> FALSE, k |-> "random", v |-> v])

\* Array.from(map.values())
MapValues(m) == [i \in 1..Len(m) |-> m[i].v]

flushVars == << pc, localMap, work, before, flushed, observed >>

buttonVars == << disabled, loading >>

dialogVars ==
  << heap, lenders, orderedLenders, dialogInited, dialogGridApi, gridRows,
     initialOrder, dragged >>

scriptVars ==
  << scriptPc, disk, gitOk, gitOutput, testsOk, stagedFiles, specFiles,
     missingTests, testsRun, exitCode >>

pageVars == << pageInited, allLenders, showTieBreakerDialog, isSaving, saves >>

lenderServiceVars ==
  << tieBreakerOrderCache, putRequests, getRequests, orderResult >>

\* The lender page and its service.
lenderVars == << pageVars, lenderServiceVars >>

\* The valueChanges pipeline of the search form.
formVars == << formInited, formDestroyed, heldQuery, lastValueChange >>

\* What belongs to the components and the script beside the streaming grid.
widgetVars ==
  << buttonVars, query, outputs, dialogVars, scriptVars, lenderVars, formVars >>

\* What belongs to the streaming grid and its service.
streamingVars ==
  << serviceVars, gridVars, flushVars, inited, destroyed, arrived, stream,
     emitted >>

\* ------------------------------------------------------------ JS strings
\* A string is the sequence of its characters; a control value is a string
\* or null.
Whitespace == {" ", "\t"}

Chars == Whitespace \cup {"a"}

Texts == UNION { [1..n -> Chars] : n \in 0..MaxQueryLen }

Str(text) == [isNull |-> FALSE, text |-> text]

NullValue == [isNull |-> TRUE, text |-> << >>]

\* String.prototype.trim
TrimNothing(t) == t

RECURSIVE TrimStart(_)
TrimStart(t) ==
  IF t # << >> /\ Head(t) \in Whitespace THEN TrimStart(Tail(t)) ELSE t

RECURSIVE TrimEnd(_)
TrimEnd(t) ==
  IF t # << >> /\ t[Len(t)] \in Whitespace
    THEN TrimEnd(SubSeq(t, 1, Len(t) - 1))
    ELSE t

Trim(t) == TrimEnd(TrimStart(t))

\* value?.trim(): undefined for a null value (undefined and null are both
\* the value with isNull).
TrimOptional(v) == IF v.isNull THEN NullValue ELSE Str(Trim(v.text))

\* if (query): a non-empty string.
JsTruthyText(v) == ~v.isNull /\ v.text # << >>

\* get hasValue(): !!this.searchForm.get('query')?.value
HasValue(v) == JsTruthyText(v)

\* FormGroup.reset() without a value: every control becomes null.
FormReset == NullValue

\* ------------------------------------------------- StreamingGridComponent
\* One iteration of updates.forEach in mergeUpdates.
MergeStep(updateMap, update) ==
  IF Truthy(IdOf(update))
    THEN MapSet(updateMap, IdOf(update), update)
    ELSE MapSetFresh(updateMap, update)

RECURSIVE MergeFold(_, _)
MergeFold(updateMap, updates) ==
  IF updates = << >> THEN updateMap
  ELSE MergeFold(MergeStep(updateMap, Head(updates)), Tail(updates))

\* mergeUpdates(updates)
MergeUpdates(updates) == MapValues(MergeFold(<< >>, updates))

\* new Map(currentData.map(item => [item.id || item.key, item]))
RECURSIVE DataMapOf(_, _)
DataMapOf(dataMap, currentData) ==
  IF currentData = << >> THEN dataMap
  ELSE DataMapOf(MapSet(dataMap, IdOf(Head(currentData)), Head(currentData)),
                 Tail(currentData))

\* One iteration of updates.forEach in applyUpdatesToData.
ApplyStepNoLookup(dataMap, update) ==
  Append(dataMap, [keyed |-> TRUE, k |-> IdOf(update), v |-> update])

ApplyStep(dataMap, update) ==
  IF MapHas(dataMap, IdOf(update))
    THEN MapSet(dataMap, IdOf(update),
                Spread(MapGet(dataMap, IdOf(update)), update))
    ELSE MapSet(dataMap, IdOf(update), update)

RECURSIVE ApplyFold(_, _)
ApplyFold(dataMap, updates) ==
  IF updates = << >> THEN dataMap
  ELSE ApplyFold(ApplyStep(dataMap, Head(updates)), Tail(updates))

\* The keys that applyUpdatesToData's forEach sends through each of its
\* branches: `dataMap.has(id)` (update existing) and else (add new).
RECURSIVE BranchesTaken(_, _, _)
BranchesTaken(dataMap, updates, taken) ==
  IF updates = << >> THEN taken
  ELSE BranchesTaken(
         ApplyStep(dataMap, Head(updates)),
         Tail(updates),
         IF MapHas(dataMap, IdOf(Head(updates)))
           THEN [taken EXCEPT !.updated = @ \cup {IdOf(Head(updates))}]
           ELSE [taken EXCEPT !.added = @ \cup {IdOf(Head(updates))}])

\* applyUpdatesToData(currentData, updates)
ApplyUpdatesToDataReplacing(currentData, updates) == updates

ApplyUpdatesToData(currentData, updates) ==
  MapValues(ApplyFold(DataMapOf(<< >>, currentData), updates))


\* The payloads and the arrival numbers of queued messages.
DataOf(q) == [i \in 1..Len(q) |-> q[i].data]

SeqsOf(q) == [i \in 1..Len(q) |-> q[i].seq]

\* takeUntil(this.destroy$) on the batch pipeline: it is subscribed from the
\* constructor until destroy$ fires (d: destroy$ has fired).
BatchSubscribedWhenNoTakeUntil(d) == TRUE

BatchSubscribedWhen(d) == ~d

BatchSubscribed == BatchSubscribedWhen(destroyed)

\* subscribeToTopic: filter(message => message.topic === topic)
TopicMatchesAny(message, topic) == TRUE

TopicMatches(message, topic) == message.topic = topic

\* takeUntil(this.destroy$) on the topic pipeline: subscribed by ngOnInit.
StreamSubscribed == inited /\ ~destroyed

\* The subscriber of setupBatchUpdates: process a batch only if it has
\* updates.
BatchHasUpdatesUnguarded(updates) == TRUE

BatchHasUpdates(updates) == Len(updates) > 0

\* gridAdapter.updateRows(gridApi, rows): one applyTransaction({update}).
UpdateRows(rows) ==
  /\ gridCalls' = gridCalls + 1
  /\ lastCall' = [op |-> "updateRows", rows |-> rows]

\* processBatchUpdates(updates)
ProcessBatchUpdates(updates) ==
  IF ~gridApi
    THEN UNCHANGED << rowData, gridCalls, lastCall >>
    ELSE /\ UpdateRows(MergeUpdates(updates))
         /\ rowData' = ApplyUpdatesToData(rowData, MergeUpdates(updates))

\* ----------------------------------------------------- StreamingService
\* this.config.reconnectDelay || 1000
ReconnectDelay(cfg) ==
  IF cfg.reconnectDelay = 0 THEN DefaultReconnectDelay ELSE cfg.reconnectDelay

\* take(this.maxReconnectAttempts): how many error notifications pass.
RetryBudgetOneMore(cfg) == maxReconnectAttempts + 1

RetryBudget(cfg) == maxReconnectAttempts

\* The subscriber function of connect()'s Observable, run once per
\* (re)subscription.  ok: createRSocketClient returned (TRUE) or threw; the
\* function is the placeholder of the injected transport, so its outcome is
\* an input.
\* last: take() has passed its final value, so the notifier completes right
\* after this attempt.  events: what this subscriber has received so far.
Attempt(ok, last, events) ==
  IF ok
    THEN /\ rsocketClient' = TRUE
         /\ streamOpened' = TRUE
         /\ connectionStatus' = TRUE
         /\ emitted' = << TRUE >>
         /\ callerEvents' = events \o << "next", "complete" >>
         /\ connState' = "done"
    ELSE /\ rsocketClient' = rsocketClient
         /\ streamOpened' = streamOpened
         /\ connectionStatus' = FALSE
         /\ emitted' = << FALSE >>
         /\ IF last
              THEN /\ callerEvents' = Append(events, "complete")
                   /\ connState' = "done"
              ELSE /\ callerEvents' = events
                   /\ connState' = "waiting"

\* disconnect()
Disconnect ==
  /\ rsocketClient' = FALSE
  /\ connectionStatus' = FALSE
  /\ emitted' = << FALSE >>
  /\ reconnectAttempts' = 0
  /\ stopped' = TRUE

\* --------------------------------------------------------------- actions
\* ngOnInit: connectToStream() subscribes connect(cfg), which runs the first
\* attempt synchronously; subscribeToStream() subscribes the topic.
NgOnInit(cfg, ok) ==
  /\ pc = "idle"
  /\ ~inited /\ ~destroyed
  /\ inited' = TRUE
  /\ config' = cfg
  /\ Attempt(ok, FALSE, << >>)
  /\ stopped' = FALSE
  /\ lastAction' = "NgOnInit"
  /\ UNCHANGED << reconnectAttempts, seen, connects, delays, destroyed, arrived, stream >>
  /\ UNCHANGED gridVars
  /\ UNCHANGED flushVars
  /\ UNCHANGED widgetVars

\* The delay() timer of the retry notifier elapses: the error passes take and
\* tap, and retryWhen resubscribes the source.
BackoffElapsed(ok) ==
  /\ pc = "idle"
  /\ connState = "waiting"
  /\ seen < RetryBudget(config)
  /\ seen' = seen + 1
  /\ delays' = Append(delays, ReconnectDelay(config))
  /\ reconnectAttempts' = reconnectAttempts + 1
  /\ Attempt(ok, seen + 1 >= RetryBudget(config), callerEvents)
  /\ lastAction' = "BackoffElapsed"
  /\ UNCHANGED << config, connects, stopped, inited, destroyed, arrived, stream >>
  /\ UNCHANGED gridVars
  /\ UNCHANGED flushVars
  /\ UNCHANGED widgetVars

\* onGridReady
OnGridReady ==
  /\ pc = "idle"
  /\ inited /\ ~destroyed /\ ~gridApi
  /\ gridApi' = TRUE
  /\ lastAction' = "OnGridReady"
  /\ emitted' = << >>
  /\ UNCHANGED << rowData, pending, buffer, delivered, batched, gridCalls,
                  lastCall, filterModel, inited, destroyed, arrived, stream >>
  /\ UNCHANGED serviceVars
  /\ UNCHANGED flushVars
  /\ UNCHANGED widgetVars

\* handleStreamMessage: the transport delivers a raw message; subscribeToTopic
\* passes the payload on when the topic matches, and debounceTime(50) holds
\* it, replacing the value it held.
HandleStreamMessage(message) ==
  /\ pc = "idle"
  /\ streamOpened
  /\ arrived < MaxMsgs
  /\ arrived' = arrived + 1
  /\ stream' = Append(stream, message.topic)
  /\ IF StreamSubscribed /\ TopicMatches(message, SubscribedTopic)
       THEN /\ delivered' = Append(delivered, arrived + 1)
            /\ pending' = << [seq |-> arrived + 1, data |-> message.payload] >>
       ELSE UNCHANGED << delivered, pending >>
  /\ lastAction' = "HandleStreamMessage"
  /\ emitted' = << >>
  /\ UNCHANGED << gridApi, rowData, buffer, batched, gridCalls, lastCall,
                  filterModel, inited, destroyed >>
  /\ UNCHANGED serviceVars
  /\ UNCHANGED flushVars
  /\ UNCHANGED widgetVars

\* debounceTime(50) elapses without a newer value: updateQueue$.next(data).
DebounceElapsed ==
  /\ pc = "idle"
  /\ StreamSubscribed
  /\ pending # << >>
  /\ pending' = << >>
  /\ buffer' = buffer \o pending
  /\ lastAction' = "DebounceElapsed"
  /\ emitted' = << >>
  /\ UNCHANGED << gridApi, rowData, delivered, batched, gridCalls, lastCall,
                  filterModel, inited, destroyed, arrived, stream >>
  /\ UNCHANGED serviceVars
  /\ UNCHANGED flushVars
  /\ UNCHANGED widgetVars

\* bufferTime(100) elapses: the buffer is emitted (empty or not) and a new one
\* opened; the subscriber processes it when it has updates.
FlushTick ==
  /\ pc = "idle"
  /\ BatchSubscribed
  /\ buffer' = << >>
  /\ batched' = batched \o SeqsOf(buffer)
  /\ IF BatchHasUpdates(DataOf(buffer))
       THEN ProcessBatchUpdates(DataOf(buffer))
       ELSE UNCHANGED << rowData, gridCalls, lastCall >>
  /\ lastAction' = IF buffer = << >> THEN "FlushTickEmpty" ELSE "FlushTick"
  /\ emitted' = << >>
  /\ UNCHANGED << gridApi, pending, delivered, filterModel, inited, destroyed,
                  arrived, stream >>
  /\ UNCHANGED serviceVars
  /\ UNCHANGED flushVars
  /\ UNCHANGED widgetVars

\* ngOnDestroy: destroy$.next() reaches the takeUntil of the batch pipeline
\* first (subscribed in the constructor), which drops the open buffer; then
\* the connect subscription, cancelling a scheduled retry; then the topic
\* pipeline, where debounceTime flushes its held value into updateQueue$,
\* which has no subscriber left.  Then streamingService.disconnect().
\* (connects = 0: the pending connect() subscription is the component's.)
NgOnDestroy ==
  /\ pc = "idle"
  /\ ~destroyed
  /\ destroyed' = TRUE
  /\ buffer' = IF BatchSubscribedWhen(TRUE) THEN buffer \o pending ELSE << >>
  /\ pending' = << >>
  /\ connState' =
       IF connState = "waiting" /\ connects = 0 THEN "cancelled" ELSE connState
  /\ Disconnect
  /\ lastAction' = "NgOnDestroy"
  /\ UNCHANGED << config, streamOpened, seen, connects, delays, callerEvents,
                  inited, gridApi, rowData, delivered, batched, gridCalls,
                  lastCall, filterModel, arrived, stream >>
  /\ UNCHANGED flushVars
  /\ UNCHANGED widgetVars

\* disconnect() called on the service by any of its users.  It does not
\* touch the connect() subscription: a scheduled retry stays scheduled.
ServiceDisconnect ==
  /\ pc = "idle"
  /\ Disconnect
  /\ lastAction' = "ServiceDisconnect"
  /\ UNCHANGED << config, streamOpened, connState, seen, connects, delays,
                  callerEvents, inited, destroyed, arrived, stream >>
  /\ UNCHANGED gridVars
  /\ UNCHANGED flushVars
  /\ UNCHANGED widgetVars

\* connect(cfg) called and subscribed by a user of the service once the
\* previous connect() subscription has ended: a new Observable with its own
\* take() count; the first attempt runs synchronously.
ServiceConnect(cfg, ok) ==
  /\ pc = "idle"
  /\ connState \in {"done", "cancelled"}
  /\ connects < MaxConnects
  /\ connects' = connects + 1
  /\ config' = cfg
  /\ seen' = 0
  /\ delays' = << >>
  /\ Attempt(ok, FALSE, << >>)
  /\ stopped' = FALSE
  /\ lastAction' = "ServiceConnect"
  /\ UNCHANGED << reconnectAttempts, inited, destroyed, arrived, stream >>
  /\ UNCHANGED gridVars
  /\ UNCHANGED flushVars
  /\ UNCHANGED widgetVars

\* applyFilter(column, value) of the component, through
\* gridAdapter.applyFilter: gridApi.setFilterModel({[column]: {filter}}).
ApplyFilterOnData(column, value) ==
  /\ pc = "idle"
  /\ inited /\ ~destroyed
  /\ IF gridApi
       THEN /\ filterModel' = << [column |-> column, filter |-> value] >>
            /\ rowData' = SelectSeq(rowData, LAMBDA r : r[column] = value)
       ELSE UNCHANGED << filterModel, rowData >>
  /\ lastAction' = "ApplyFilter"
  /\ emitted' = << >>
  /\ UNCHANGED << gridApi, pending, buffer, delivered, batched, gridCalls,
                  lastCall, inited, destroyed, arrived, stream >>
  /\ UNCHANGED serviceVars
  /\ UNCHANGED flushVars
  /\ UNCHANGED widgetVars

ApplyFilter(column, value) ==
  /\ pc = "idle"
  /\ inited /\ ~destroyed
  /\ IF gridApi
       THEN filterModel' = << [column |-> column, filter |-> value] >>
       ELSE UNCHANGED filterModel
  /\ lastAction' = "ApplyFilter"
  /\ emitted' = << >>
  /\ UNCHANGED << gridApi, rowData, pending, buffer, delivered, batched,
                  gridCalls, lastCall, inited, destroyed, arrived, stream >>
  /\ UNCHANGED serviceVars
  /\ UNCHANGED flushVars
  /\ UNCHANGED widgetVars

\* clearFilters() of the component, through gridAdapter.clearFilters:
\* gridApi.setFilterModel(null).
ClearFilters ==
  /\ pc = "idle"
  /\ inited /\ ~destroyed
  /\ IF gridApi THEN filterModel' = << >> ELSE UNCHANGED filterModel
  /\ lastAction' = "ClearFilters"
  /\ emitted' = << >>
  /\ UNCHANGED << gridApi, rowData, pending, buffer, delivered, batched,
                  gridCalls, lastCall, inited, destroyed, arrived, stream >>
  /\ UNCHANGED serviceVars
  /\ UNCHANGED flushVars
  /\ UNCHANGED widgetVars

\* The flush of FlushTick statement by statement.  FlushBegin: the tick of
\* bufferTime, the subscriber's test, processBatchUpdates up to the grid call
\* and the construction of dataMap in applyUpdatesToData.
FlushBegin ==
  /\ pc = "idle"
  /\ BatchSubscribed
  /\ IF BatchHasUpdates(DataOf(buffer))
       THEN /\ batched' = batched \o SeqsOf(buffer)
            /\ lastAction' = "FlushBegin"
            /\ IF ~gridApi
                 THEN UNCHANGED << gridCalls, lastCall, flushVars >>
                 ELSE /\ UpdateRows(MergeUpdates(DataOf(buffer)))
                      /\ localMap' = DataMapOf(<< >>, rowData)
                      /\ work' = MergeUpdates(DataOf(buffer))
                      /\ before' = rowData
                      /\ flushed' = MergeUpdates(DataOf(buffer))
                      /\ pc' = "merging"
                      /\ UNCHANGED observed
       ELSE /\ lastAction' = "FlushTickEmpty"
            /\ UNCHANGED << batched, gridCalls, lastCall, flushVars >>
  /\ buffer' = << >>
  /\ emitted' = << >>
  /\ UNCHANGED << gridApi, rowData, pending, delivered, filterModel, inited,
                  destroyed, arrived, stream >>
  /\ UNCHANGED serviceVars
  /\ UNCHANGED widgetVars

\* One iteration of updates.forEach in applyUpdatesToData: it writes dataMap,
\* a copy, and not the array rowData$ holds.
MergeOneInPlace ==
  /\ pc = "merging"
  /\ work # << >>
  /\ localMap' = ApplyStep(localMap, Head(work))
  /\ work' = Tail(work)
  /\ rowData' = MapValues(localMap')
  /\ lastAction' = "MergeOne"
  /\ emitted' = << >>
  /\ UNCHANGED << pc, before, flushed, observed >>
  /\ UNCHANGED << gridApi, pending, buffer, delivered, batched, gridCalls,
                  lastCall, filterModel, inited, destroyed, arrived, stream >>
  /\ UNCHANGED serviceVars
  /\ UNCHANGED widgetVars

MergeOne ==
  /\ pc = "merging"
  /\ work # << >>
  /\ localMap' = ApplyStep(localMap, Head(work))
  /\ work' = Tail(work)
  /\ lastAction' = "MergeOne"
  /\ emitted' = << >>
  /\ UNCHANGED << pc, before, flushed, observed >>
  /\ UNCHANGED gridVars
  /\ UNCHANGED << inited, destroyed, arrived, stream >>
  /\ UNCHANGED serviceVars
  /\ UNCHANGED widgetVars

\* The end of the flush: Array.from(dataMap.values()) and
\* this.rowData$.next(updatedData).
Publish ==
  /\ pc = "merging"
  /\ work = << >>
  /\ rowData' = MapValues(localMap)
  /\ pc' = "idle"
  /\ lastAction' = "Publish"
  /\ emitted' = << >>
  /\ UNCHANGED << localMap, work, before, flushed, observed >>
  /\ UNCHANGED << gridApi, pending, buffer, delivered, batched, gridCalls,
                  lastCall, filterModel, inited, destroyed, arrived, stream >>
  /\ UNCHANGED serviceVars
  /\ UNCHANGED widgetVars

\* A reader of the table (an observer of rowData$, or rowData$.value), at any
\* point of a flush.
ReadTable ==
  /\ observed' = rowData
  /\ lastAction' = "ReadTable"
  /\ emitted' = << >>
  /\ UNCHANGED << pc, localMap, work, before, flushed >>
  /\ UNCHANGED gridVars
  /\ UNCHANGED << inited, destroyed, arrived, stream >>
  /\ UNCHANGED serviceVars
  /\ UNCHANGED widgetVars

\* ----------------------------------------------------- ButtonAtomComponent
\* onClick: if (!this.disabled && !this.loading)
InteractiveIgnoringLoading(d, l) == ~d

Interactive(d, l) == ~d /\ ~l

\* The parent's bindings [disabled] and [loading].
SetButtonInputs(d, l) ==
  /\ disabled' = d
  /\ loading' = l
  /\ outputs' = << >>
  /\ lastAction' = "SetButtonInputs"
  /\ UNCHANGED << query, dialogVars, scriptVars >>
  /\ UNCHANGED lenderVars
  /\ UNCHANGED formVars
  /\ UNCHANGED streamingVars

\* onClick()
OnClick ==
  /\ outputs' = IF Interactive(disabled, loading)
                  THEN << [event |-> "clicked", value |-> << >>] >>
                  ELSE << >>
  /\ lastAction' = "OnClick"
  /\ UNCHANGED << buttonVars, query, dialogVars, scriptVars >>
  /\ UNCHANGED lenderVars
  /\ UNCHANGED formVars
  /\ UNCHANGED streamingVars

\* --------------------------------------------- SearchFormMoleculeComponent
\* The pipeline of ngOnInit on query.valueChanges is subscribed from
\* ngOnInit until destroy$ fires (takeUntil).
ValueChangesSubscribed == formInited /\ ~formDestroyed

\* valueChanges emits v: debounceTime holds it in place of the value it
\* held and starts its period again.
ValueChanges(v) ==
  heldQuery' = IF ValueChangesSubscribed THEN << v >> ELSE heldQuery

\* distinctUntilChanged(): the first value passes, a later one passes when
\* it differs from the value passed last.
DistinctPassesAll(last, v) == TRUE

DistinctUntilChanged(last, v) == last = << >> \/ last[1] # v

\* The initialValue inputs and the texts typed when the valueChanges
\* pipeline is observed.
QueryTexts == { << >>, << "a" >>, << "a", " " >> }

\* ngOnInit(): the initial value is patched in, then the pipeline is
\* subscribed (so that it does not see the patch).
FormInit(initialValue) ==
  /\ ~formInited
  /\ formInited' = TRUE
  /\ query' = IF JsTruthyText(Str(initialValue)) THEN Str(initialValue) ELSE query
  /\ outputs' = << >>
  /\ lastAction' = "FormInit"
  /\ UNCHANGED << formDestroyed, heldQuery, lastValueChange >>
  /\ UNCHANGED << buttonVars, dialogVars, scriptVars >>
  /\ UNCHANGED lenderVars
  /\ UNCHANGED streamingVars

\* The period of debounceTime elapses without a newer value: the held value
\* goes to distinctUntilChanged and, if it passes, valueChange emits it.
QueryDebounceElapsed ==
  /\ ValueChangesSubscribed
  /\ heldQuery # << >>
  /\ heldQuery' = << >>
  /\ IF DistinctUntilChanged(lastValueChange, heldQuery[1])
       THEN /\ outputs' = << [event |-> "valueChange", value |-> heldQuery[1]] >>
            /\ lastValueChange' = heldQuery
       ELSE /\ outputs' = << >>
            /\ UNCHANGED lastValueChange
  /\ lastAction' = "QueryDebounceElapsed"
  /\ UNCHANGED << formInited, formDestroyed, query >>
  /\ UNCHANGED << buttonVars, dialogVars, scriptVars >>
  /\ UNCHANGED lenderVars
  /\ UNCHANGED streamingVars

\* ngOnDestroy(): destroy$ fires, takeUntil unsubscribes the pipeline and
\* debounceTime drops its timer with the value it held.
FormDestroy ==
  /\ formInited /\ ~formDestroyed
  /\ formDestroyed' = TRUE
  /\ heldQuery' = << >>
  /\ outputs' = << >>
  /\ lastAction' = "FormDestroy"
  /\ UNCHANGED << formInited, lastValueChange, query >>
  /\ UNCHANGED << buttonVars, dialogVars, scriptVars >>
  /\ UNCHANGED lenderVars
  /\ UNCHANGED streamingVars

\* The user types into the query input.
TypeQuery(text) ==
  /\ query' = Str(text)
  /\ ValueChanges(Str(text))
  /\ outputs' = << >>
  /\ lastAction' = "TypeQuery"
  /\ UNCHANGED << formInited, formDestroyed, lastValueChange >>
  /\ UNCHANGED << buttonVars, dialogVars, scriptVars >>
  /\ UNCHANGED lenderVars
  /\ UNCHANGED streamingVars

\* onSubmit(): const query = ...value?.trim(); if (query) search.emit(query)
OnSubmit ==
  /\ outputs' = IF JsTruthyText(TrimOptional(query))
                  THEN << [event |-> "search", value |-> TrimOptional(query).text] >>
                  ELSE << >>
  /\ lastAction' = "OnSubmit"
  /\ UNCHANGED << buttonVars, query, dialogVars, scriptVars >>
  /\ UNCHANGED lenderVars
  /\ UNCHANGED formVars
  /\ UNCHANGED streamingVars

\* onClear(): this.searchForm.reset(); this.clear.emit()
OnClear ==
  /\ query' = FormReset
  /\ ValueChanges(FormReset)
  /\ outputs' = << [event |-> "clear", value |-> << >>] >>
  /\ lastAction' = "OnClear"
  /\ UNCHANGED << formInited, formDestroyed, lastValueChange >>
  /\ UNCHANGED << buttonVars, dialogVars, scriptVars >>
  /\ UNCHANGED lenderVars
  /\ UNCHANGED streamingVars

\* ------------------------------------- TieBreakerDialogOrganismComponent
\* A Lender is [id, tieBreakerOrder]; tieBreakerOrder 0 stands for an unset
\* order (undefined is, under `|| 0` and `|| index + 1`, what 0 is).
LenderLists ==
  UNION { { [i \in 1..n |-> [id |-> i, tieBreakerOrder |-> o[i]]] :
              o \in [1..n -> 0..MaxLenders] } : n \in 1..MaxLenders }

\* The objects behind a list of references.
LenderValues(h, refs) == [i \in 1..Len(refs) |-> h[refs[i]]]

\* Array.prototype.sort with the comparator
\* (a, b) => (a.tieBreakerOrder || 0) - (b.tieBreakerOrder || 0): stable.
RECURSIVE InsertByOrder(_, _, _)
InsertByOrder(h, sorted, r) ==
  IF sorted = << >> THEN << r >>
  ELSE IF h[sorted[Len(sorted)]].tieBreakerOrder <= h[r].tieBreakerOrder
    THEN Append(sorted, r)
    ELSE Append(InsertByOrder(h, SubSeq(sorted, 1, Len(sorted) - 1), r),
                sorted[Len(sorted)])

RECURSIVE SortByOrder(_, _)
SortByOrder(h, refs) ==
  IF refs = << >> THEN << >>
  ELSE InsertByOrder(h, SortByOrder(h, SubSeq(refs, 1, Len(refs) - 1)),
                     refs[Len(refs)])

\* { ...lender, tieBreakerOrder: lender.tieBreakerOrder || index + 1 }
\* (position: index + 1)
WithDefaultOrder(lender, position) ==
  [lender EXCEPT !.tieBreakerOrder =
     IF lender.tieBreakerOrder # 0 THEN lender.tieBreakerOrder ELSE position]

\* [...lenders].sort(...).map(...): the new objects, in their order.
OrderedCopies(h, refs) ==
  [i \in 1..Len(refs) |-> WithDefaultOrder(h[SortByOrder(h, refs)[i]], i)]

\* The references of the n new objects, placed after the n input objects.
CopyRefs(n) == [i \in 1..n |-> n + i]

\* The heap with the input objects and a new set of copies.
HeapWithCopies(h, refs) ==
  SubSeq(h, 1, Len(refs)) \o OrderedCopies(h, refs)

\* ngOnInit() of a dialog created with the input list ls.
DialogInit(ls) ==
  /\ ~dialogInited
  /\ heap' = HeapWithCopies(ls, [i \in 1..Len(ls) |-> i])
  /\ lenders' = [i \in 1..Len(ls) |-> i]
  /\ orderedLenders' = CopyRefs(Len(ls))
  /\ initialOrder' = LenderValues(heap', orderedLenders')
  /\ dialogInited' = TRUE
  /\ outputs' = << >>
  /\ lastAction' = "DialogInit"
  /\ UNCHANGED << dialogGridApi, gridRows, dragged >>
  /\ UNCHANGED << buttonVars, query, scriptVars >>
  /\ UNCHANGED lenderVars
  /\ UNCHANGED formVars
  /\ UNCHANGED streamingVars

\* onGridReady(params): gridApi is set and the grid is given orderedLenders.
DialogGridReady ==
  /\ dialogInited /\ ~dialogGridApi
  /\ dialogGridApi' = TRUE
  /\ gridRows' = orderedLenders
  /\ outputs' = << >>
  /\ lastAction' = "DialogGridReady"
  /\ UNCHANGED << heap, lenders, orderedLenders, dialogInited, initialOrder,
                  dragged >>
  /\ UNCHANGED << buttonVars, query, scriptVars >>
  /\ UNCHANGED lenderVars
  /\ UNCHANGED formVars
  /\ UNCHANGED streamingVars

\* The managed row drag of the grid: the row at `from` now stands at `to`.
MoveRow(rows, from, to) ==
  LET without == SubSeq(rows, 1, from - 1) \o SubSeq(rows, from + 1, Len(rows))
  IN SubSeq(without, 1, to - 1) \o << rows[from] >>
       \o SubSeq(without, to, Len(without))

\* allRowData.forEach((lender, index) => lender.tieBreakerOrder = index + 1)
RenumberNothing(h, rows, i) == h

RECURSIVE Renumber(_, _, _)
Renumber(h, rows, i) ==
  IF i > Len(rows) THEN h
  ELSE Renumber([h EXCEPT ![rows[i]].tieBreakerOrder = i], rows, i + 1)

\* onRowDragEnd(event), after the grid moved the row; over: event.over is
\* set.
OnRowDragEnd(from, to, over) ==
  /\ dialogGridApi
  /\ from \in 1..Len(gridRows) /\ to \in 1..Len(gridRows)
  /\ gridRows' = MoveRow(gridRows, from, to)
  /\ IF ~over \/ ~dialogGridApi
       THEN UNCHANGED << heap, orderedLenders, dragged >>
       ELSE /\ heap' = Renumber(heap, gridRows', 1)
            /\ orderedLenders' = gridRows'
            /\ dragged' = TRUE
  /\ outputs' = << >>
  /\ lastAction' = IF over THEN "OnRowDragEnd" ELSE "OnRowDragEndOutside"
  /\ UNCHANGED << lenders, dialogInited, dialogGridApi, initialOrder >>
  /\ UNCHANGED << buttonVars, query, scriptVars >>
  /\ UNCHANGED lenderVars
  /\ UNCHANGED formVars
  /\ UNCHANGED streamingVars

\* onSave(): this.save.emit(this.orderedLenders)
OnSave ==
  /\ dialogInited
  /\ outputs' = << [event |-> "save",
                    value |-> LenderValues(heap, orderedLenders)] >>
  /\ lastAction' = "OnSave"
  /\ UNCHANGED dialogVars
  /\ UNCHANGED << buttonVars, query, scriptVars >>
  /\ UNCHANGED lenderVars
  /\ UNCHANGED formVars
  /\ UNCHANGED streamingVars

\* onCancel(): orderedLenders is built again from this.lenders, the grid is
\* given it, cancel is emitted.  The objects of the old orderedLenders are
\* referenced by nothing any more; the new ones take their places.
OnCancelKeeping ==
  /\ dialogInited
  /\ outputs' = << [event |-> "cancel", value |-> << >>] >>
  /\ lastAction' = "OnCancel"
  /\ UNCHANGED dialogVars
  /\ UNCHANGED << buttonVars, query, scriptVars >>
  /\ UNCHANGED lenderVars
  /\ UNCHANGED formVars
  /\ UNCHANGED streamingVars

OnCancel ==
  /\ dialogInited
  /\ heap' = HeapWithCopies(heap, lenders)
  /\ orderedLenders' = CopyRefs(Len(lenders))
  /\ gridRows' = IF dialogGridApi THEN orderedLenders' ELSE gridRows
  /\ outputs' = << [event |-> "cancel", value |-> << >>] >>
  /\ lastAction' = "OnCancel"
  /\ UNCHANGED << lenders, dialogInited, dialogGridApi, initialOrder, dragged >>
  /\ UNCHANGED << buttonVars, query, scriptVars >>
  /\ UNCHANGED lenderVars
  /\ UNCHANGED formVars
  /\ UNCHANGED streamingVars

\* ---------------------------------------------------- test-changed-files
\* A file name is the sequence of its parts between dots: a.spec.ts is
\* << "a", "spec", "ts" >>; the empty line is << >>.
FileNames ==
  { << "a", "ts" >>, << "b", "ts" >>, << "a", "spec", "ts" >>,
    << "a", "html" >> }

SpecFilesOnDisk ==
  SUBSET { << "a", "spec", "ts" >>, << "b", "spec", "ts" >> }

\* What git diff --cached --name-only prints: distinct names, one per line,
\* each line ended by a newline.
GitOutputs ==
  UNION { { o \in [1..n -> FileNames] :
              \A i, j \in 1..n : i # j => o[i] # o[j] } : n \in 0..MaxStaged }

\* output.split('\n'): the lines and the empty string after the last
\* newline.
SplitLines(output) == IF output = << >> THEN << << >> >> ELSE Append(output, << >>)

\* file.trim() !== ''
NotBlank(file) == file # << >>

\* file.endsWith('.ts')
EndsWithTs(file) == Len(file) >= 2 /\ file[Len(file)] = "ts"

\* file.endsWith('.spec.ts')
EndsWithSpecTs(file) ==
  Len(file) >= 3 /\ file[Len(file)] = "ts" /\ file[Len(file) - 1] = "spec"

\* file.replace(/\.ts$/, '.spec.ts')
SpecFileOf(file) == SubSeq(file, 1, Len(file) - 1) \o << "spec", "ts" >>

\* existsSync(specFile)
ExistsSync(file) == file \in disk

\* if (missingTests.length > 0)
MissingTestsIgnored(missing) == FALSE

MissingTestsFail(missing) == Len(missing) > 0

\* process.exit(status)
Exit(status) ==
  /\ exitCode' = << status >>
  /\ scriptPc' = "exited"

\* Lines 30-49: the staged files are listed and filtered.  ok: execSync
\* returned; output: what git printed; files: what the working tree holds.
GetStagedFiles(ok, output, files) ==
  /\ scriptPc = "start"
  /\ disk' = files
  /\ gitOk' = ok
  /\ gitOutput' = IF ok THEN output ELSE << >>
  /\ IF ~ok
       THEN /\ Exit(1)
            /\ UNCHANGED stagedFiles
       ELSE /\ stagedFiles' =
                 SelectSeq(SelectSeq(SplitLines(output), NotBlank),
                           LAMBDA file : EndsWithTs(file) /\ ~EndsWithSpecTs(file))
            /\ IF Len(stagedFiles') = 0
                 THEN Exit(0)
                 ELSE /\ scriptPc' = "check"
                      /\ UNCHANGED exitCode
  /\ outputs' = << >>
  /\ lastAction' = "GetStagedFiles"
  /\ UNCHANGED << testsOk, specFiles, missingTests, testsRun >>
  /\ UNCHANGED << buttonVars, query, dialogVars >>
  /\ UNCHANGED lenderVars
  /\ UNCHANGED formVars
  /\ UNCHANGED streamingVars

\* Lines 54-87: the spec file of every staged file is looked for.
CheckSpecFiles ==
  /\ scriptPc = "check"
  /\ specFiles' =
       [i \in 1..Len(SelectSeq(stagedFiles,
                               LAMBDA file : ExistsSync(SpecFileOf(file)))) |->
          SpecFileOf(SelectSeq(stagedFiles,
                               LAMBDA file : ExistsSync(SpecFileOf(file)))[i])]
  /\ missingTests' =
       SelectSeq(stagedFiles, LAMBDA file : ~ExistsSync(SpecFileOf(file)))
  /\ IF MissingTestsFail(missingTests')
       THEN Exit(1)
       ELSE IF Len(specFiles') = 0
         THEN Exit(0)
         ELSE /\ scriptPc' = "test"
              /\ UNCHANGED exitCode
  /\ outputs' = << >>
  /\ lastAction' = "CheckSpecFiles"
  /\ UNCHANGED << disk, gitOk, gitOutput, testsOk, stagedFiles, testsRun >>
  /\ UNCHANGED << buttonVars, query, dialogVars >>
  /\ UNCHANGED lenderVars
  /\ UNCHANGED formVars
  /\ UNCHANGED streamingVars

\* Lines 89-111: npm run test:ci.  ok: execSync returned.
RunTests(ok) ==
  /\ scriptPc = "test"
  /\ testsRun' = testsRun + 1
  /\ testsOk' = ok
  /\ IF ok THEN Exit(0) ELSE Exit(1)
  /\ outputs' = << >>
  /\ lastAction' = "RunTests"
  /\ UNCHANGED << disk, gitOk, gitOutput, stagedFiles, specFiles, missingTests >>
  /\ UNCHANGED << buttonVars, query, dialogVars >>
  /\ UNCHANGED lenderVars
  /\ UNCHANGED formVars
  /\ UNCHANGED streamingVars

\* ------------------------------ LenderService, LenderManagementComponent
\* What GET /api/lenders answers with: a list in which one lender has no
\* order and the others are not in order, and a list in order.
ServerLists ==
  { << [id |-> 1, tieBreakerOrder |-> 0], [id |-> 2, tieBreakerOrder |-> 2],
       [id |-> 3, tieBreakerOrder |-> 1] >>,
    << [id |-> 1, tieBreakerOrder |-> 1], [id |-> 2, tieBreakerOrder |-> 2] >> }

\* What the dialog's save event carries: its orderedLenders after a drag,
\* and as ngOnInit makes it of three lenders of which the first two have no
\* order and the third has order 1.
SavedLists ==
  { << [id |-> 2, tieBreakerOrder |-> 1], [id |-> 1, tieBreakerOrder |-> 2] >>,
    << [id |-> 1, tieBreakerOrder |-> 1], [id |-> 2, tieBreakerOrder |-> 2],
       [id |-> 3, tieBreakerOrder |-> 1] >> }

\* a.tieBreakerOrder || 999
Rank(lender) ==
  IF lender.tieBreakerOrder # 0 THEN lender.tieBreakerOrder ELSE UnsetOrderRank

\* Array.prototype.sort with the comparator
\* (a, b) => (a.tieBreakerOrder || 999) - (b.tieBreakerOrder || 999): stable.
RECURSIVE InsertByRank(_, _)
InsertByRank(sorted, lender) ==
  IF sorted = << >> THEN << lender >>
  ELSE IF Rank(sorted[Len(sorted)]) <= Rank(lender)
    THEN Append(sorted, lender)
    ELSE Append(InsertByRank(SubSeq(sorted, 1, Len(sorted) - 1), lender),
                sorted[Len(sorted)])

RECURSIVE SortByRank(_)
SortByRank(ls) ==
  IF ls = << >> THEN << >>
  ELSE InsertByRank(SortByRank(SubSeq(ls, 1, Len(ls) - 1)), ls[Len(ls)])

\* The tap of updateTieBreakerOrder: it runs on the response of a request
\* that succeeded (ok), never on an error.
CacheAfterPutAlways(ok, cache, saved) == saved

CacheAfterPut(ok, cache, saved) == IF ok THEN saved ELSE cache

\* loadLenders(): getLenders() is subscribed, a GET request goes out.
LoadLenders == getRequests' = getRequests + 1

\* ngOnInit() of the lender page.
PageInit ==
  /\ ~pageInited
  /\ pageInited' = TRUE
  /\ LoadLenders
  /\ outputs' = << >>
  /\ lastAction' = "PageInit"
  /\ UNCHANGED << allLenders, showTieBreakerDialog, isSaving, saves,
                  tieBreakerOrderCache, putRequests, orderResult >>
  /\ UNCHANGED << buttonVars, query, dialogVars, scriptVars >>
  /\ UNCHANGED formVars
  /\ UNCHANGED streamingVars

\* A GET /api/lenders request is answered.  ok: with the list ls, which the
\* tap of getLenders caches and the subscriber of loadLenders stores;
\* otherwise with an error, for which loadLenders has no handler.
LoadResponse(ok, ls) ==
  /\ getRequests > 0
  /\ getRequests' = getRequests - 1
  /\ IF ok
       THEN /\ tieBreakerOrderCache' = ls
            /\ allLenders' = ls
       ELSE UNCHANGED << tieBreakerOrderCache, allLenders >>
  /\ outputs' = << >>
  /\ lastAction' = "LoadResponse"
  /\ UNCHANGED << pageInited, showTieBreakerDialog, isSaving, saves,
                  putRequests, orderResult >>
  /\ UNCHANGED << buttonVars, query, dialogVars, scriptVars >>
  /\ UNCHANGED formVars
  /\ UNCHANGED streamingVars

\* openTieBreakerDialog()
OpenTieBreakerDialog ==
  /\ pageInited
  /\ showTieBreakerDialog' = TRUE
  /\ outputs' = << >>
  /\ lastAction' = "OpenTieBreakerDialog"
  /\ UNCHANGED << pageInited, allLenders, isSaving, saves >>
  /\ UNCHANGED lenderServiceVars
  /\ UNCHANGED << buttonVars, query, dialogVars, scriptVars >>
  /\ UNCHANGED formVars
  /\ UNCHANGED streamingVars

\* onSaveTieBreaker(orderedLenders), up to the subscription of
\* updateTieBreakerOrder, which sends the PUT request.  It is bound to the
\* save event of the dialog, which comes from the Save button of a visible
\* dialog; the button has [loading] and [disabled] bound to isSaving.
OnSaveTieBreaker(ordered) ==
  /\ pageInited
  /\ showTieBreakerDialog
  /\ Interactive(isSaving, isSaving)
  /\ saves < MaxSaves
  /\ saves' = saves + 1
  /\ isSaving' = TRUE
  /\ putRequests' = Append(putRequests, ordered)
  /\ outputs' = << >>
  /\ lastAction' = "OnSaveTieBreaker"
  /\ UNCHANGED << pageInited, allLenders, showTieBreakerDialog >>
  /\ UNCHANGED << tieBreakerOrderCache, getRequests, orderResult >>
  /\ UNCHANGED << buttonVars, query, dialogVars, scriptVars >>
  /\ UNCHANGED formVars
  /\ UNCHANGED streamingVars

\* The next handler of onSaveTieBreaker.
NextHandler ==
  /\ isSaving' = FALSE
  /\ showTieBreakerDialog' = FALSE
  /\ LoadLenders

\* The error handler of onSaveTieBreaker.
ErrorHandlerStillSaving ==
  UNCHANGED << isSaving, showTieBreakerDialog, getRequests >>

ErrorHandler ==
  /\ isSaving' = FALSE
  /\ UNCHANGED << showTieBreakerDialog, getRequests >>

\* The oldest PUT request is answered.  ok: with success, so that the tap of
\* updateTieBreakerOrder and then the next handler run; otherwise with an
\* error, which skips the tap and runs the error handler.
SaveResponse(ok) ==
  /\ putRequests # << >>
  /\ putRequests' = Tail(putRequests)
  /\ tieBreakerOrderCache' =
       CacheAfterPut(ok, tieBreakerOrderCache, Head(putRequests))
  /\ IF ok THEN NextHandler ELSE ErrorHandler
  /\ outputs' = << >>
  /\ lastAction' = IF ok THEN "SaveSucceeded" ELSE "SaveFailed"
  /\ UNCHANGED << pageInited, allLenders, saves, orderResult >>
  /\ UNCHANGED << buttonVars, query, dialogVars, scriptVars >>
  /\ UNCHANGED formVars
  /\ UNCHANGED streamingVars

\* onCancelTieBreaker(), bound to the cancel event of the dialog; the Cancel
\* button has [disabled] bound to isSaving.
OnCancelTieBreaker ==
  /\ showTieBreakerDialog
  /\ Interactive(isSaving, FALSE)
  /\ showTieBreakerDialog' = FALSE
  /\ outputs' = << >>
  /\ lastAction' = "OnCancelTieBreaker"
  /\ UNCHANGED << pageInited, allLenders, isSaving, saves >>
  /\ UNCHANGED lenderServiceVars
  /\ UNCHANGED << buttonVars, query, dialogVars, scriptVars >>
  /\ UNCHANGED formVars
  /\ UNCHANGED streamingVars

\* onCloseTieBreaker(), bound to the close event of the dialog (the header's
\* close control and a click on the overlay).
OnCloseTieBreaker ==
  /\ showTieBreakerDialog
  /\ showTieBreakerDialog' = FALSE
  /\ outputs' = << >>
  /\ lastAction' = "OnCloseTieBreaker"
  /\ UNCHANGED << pageInited, allLenders, isSaving, saves >>
  /\ UNCHANGED lenderServiceVars
  /\ UNCHANGED << buttonVars, query, dialogVars, scriptVars >>
  /\ UNCHANGED formVars
  /\ UNCHANGED streamingVars

\* getTieBreakerOrder(): [...this.tieBreakerOrderCache].sort(...)
GetTieBreakerOrder ==
  /\ orderResult' = SortByRank(tieBreakerOrderCache)
  /\ outputs' = << >>
  /\ lastAction' = "GetTieBreakerOrder"
  /\ UNCHANGED << tieBreakerOrderCache, putRequests, getRequests >>
  /\ UNCHANGED pageVars
  /\ UNCHANGED << buttonVars, query, dialogVars, scriptVars >>
  /\ UNCHANGED formVars
  /\ UNCHANGED streamingVars

Init ==
  /\ connectionStatus = FALSE
  /\ reconnectAttempts = 0
  /\ rsocketClient = FALSE
  /\ streamOpened = FALSE
  /\ config = [reconnectAttempts |-> 0, reconnectDelay |-> 0, bufferSize |-> 0]
  /\ connState = "idle"
  /\ seen = 0
  /\ connects = 0
  /\ stopped = FALSE
  /\ inited = FALSE
  /\ destroyed = FALSE
  /\ gridApi = FALSE
  /\ rowData = << >>
  /\ pending = << >>
  /\ buffer = << >>
  /\ arrived = 0
  /\ delivered = << >>
  /\ batched = << >>
  /\ gridCalls = 0
  /\ lastCall = [op |-> "none", rows |-> << >>]
  /\ filterModel = << >>
  /\ stream = << >>
  /\ pc = "idle"
  /\ localMap = << >>
  /\ work = << >>
  /\ before = << >>
  /\ flushed = << >>
  /\ observed = << >>
  /\ delays = << >>
  /\ callerEvents = << >>
  /\ emitted = << >>
  /\ disabled = FALSE
  /\ loading = FALSE
  /\ query = Str(<< >>)
  /\ outputs = << >>
  /\ heap = << >>
  /\ dragged = FALSE
  /\ lenders = << >>
  /\ orderedLenders = << >>
  /\ dialogInited = FALSE
  /\ dialogGridApi = FALSE
  /\ gridRows = << >>
  /\ initialOrder = << >>
  /\ scriptPc = "start"
  /\ disk = {}
  /\ gitOk = TRUE
  /\ gitOutput = << >>
  /\ testsOk = TRUE
  /\ stagedFiles = << >>
  /\ specFiles = << >>
  /\ missingTests = << >>
  /\ testsRun = 0
  /\ exitCode = << >>
  /\ pageInited = FALSE
  /\ allLenders = << >>
  /\ showTieBreakerDialog = FALSE
  /\ isSaving = FALSE
  /\ saves = 0
  /\ tieBreakerOrderCache = << >>
  /\ putRequests = << >>
  /\ getRequests = 0
  /\ orderResult = << >>
  /\ formInited = FALSE
  /\ formDestroyed = FALSE
  /\ heldQuery = << >>
  /\ lastValueChange = << >>
  /\ lastAction = "constructor"

\* The grid pipeline behind a connection that is established at once.
Next ==
  \/ NgOnInit(ComponentConfig, TRUE)
  \/ OnGridReady
  \/ \E message \in Inbound : HandleStreamMessage(message)
  \/ DebounceElapsed
  \/ FlushTick
  \/ NgOnDestroy

Spec == Init /\ [][Next]_vars

\* The connection: any config, any outcome of each attempt.
NextConn ==
  \/ \E cfg \in Configs, ok \in BOOLEAN : NgOnInit(cfg, ok)
  \/ \E ok \in BOOLEAN : BackoffElapsed(ok)
  \/ \E cfg \in Configs, ok \in BOOLEAN : ServiceConnect(cfg, ok)
  \/ ServiceDisconnect
  \/ NgOnDestroy

SpecConn == Init /\ [][NextConn]_vars

\* The whole pipeline on coarse messages, with the users of the service and of
\* the grid acting on it; every connection attempt succeeds.
NextPipe ==
  \/ \E cfg \in Configs : NgOnInit(cfg, TRUE)
  \/ \E cfg \in Configs : ServiceConnect(cfg, TRUE)
  \/ ServiceDisconnect
  \/ OnGridReady
  \/ \E message \in InboundCoarse : HandleStreamMessage(message)
  \/ DebounceElapsed
  \/ FlushTick
  \/ \E column \in FilterColumns, value \in FilterValues : ApplyFilter(column, value)
  \/ ClearFilters
  \/ NgOnDestroy

SpecPipe == Init /\ [][NextPipe]_vars

\* The component on coarse messages with its flush taken statement by
\* statement and a reader of the table beside it.
NextFlush ==
  \/ NgOnInit(ComponentConfig, TRUE)
  \/ OnGridReady
  \/ \E message \in InboundFlush : HandleStreamMessage(message)
  \/ DebounceElapsed
  \/ FlushBegin
  \/ MergeOne
  \/ Publish
  \/ ReadTable
  \/ NgOnDestroy

SpecFlush == Init /\ [][NextFlush]_vars

\* A page with a button atom and a search form molecule.
NextAtoms ==
  \/ \E d, l \in BOOLEAN : SetButtonInputs(d, l)
  \/ OnClick
  \/ \E text \in Texts : TypeQuery(text)
  \/ OnSubmit
  \/ OnClear

SpecAtoms == Init /\ [][NextAtoms]_vars

\* The tie-breaker dialog and its user.
NextDialog ==
  \/ \E ls \in LenderLists : DialogInit(ls)
  \/ DialogGridReady
  \/ \E from, to \in 1..MaxLenders, over \in BOOLEAN :
       OnRowDragEnd(from, to, over)
  \/ OnSave
  \/ OnCancel

SpecDialog == Init /\ [][NextDialog]_vars

\* One run of the test-changed-files script.
NextScript ==
  \/ \E ok \in BOOLEAN, output \in GitOutputs, files \in SpecFilesOnDisk :
       GetStagedFiles(ok, output, files)
  \/ CheckSpecFiles
  \/ \E ok \in BOOLEAN : RunTests(ok)

SpecScript == Init /\ [][NextScript]_vars

\* The lender page, its service and the API behind it.
NextLenders ==
  \/ PageInit
  \/ \E ok \in BOOLEAN, ls \in ServerLists : LoadResponse(ok, ls)
  \/ OpenTieBreakerDialog
  \/ \E ordered \in SavedLists : OnSaveTieBreaker(ordered)
  \/ \E ok \in BOOLEAN : SaveResponse(ok)
  \/ OnCancelTieBreaker
  \/ OnCloseTieBreaker
  \/ GetTieBreakerOrder

SpecLenders == Init /\ [][NextLenders]_vars

\* The search form with its valueChanges pipeline.
NextForm ==
  \/ \E initialValue \in QueryTexts : FormInit(initialValue)
  \/ \E text \in QueryTexts : TypeQuery(text)
  \/ OnClear
  \/ OnSubmit
  \/ QueryDebounceElapsed
  \/ FormDestroy

SpecForm == Init /\ [][NextForm]_vars


\* ------------------------------------------------------------ properties
\* The key a payload or row carries, as the inbound message shape names it.
KeyOf(u) == IF u.id # Undefined THEN u.id ELSE u.key

Keys == { KeyOf(p) : p \in Payloads } \ {Undefined}

RowsOf(rows, k) == SelectSeq(rows, LAMBDA r : KeyOf(r) = k)

Range(q) == { q[i] : i \in 1..Len(q) }

Min(a, b) == IF a <= b THEN a ELSE b

\* A step in which the flush timer fired on a non-empty window while the grid
\* was ready.
FlushStep == lastAction' = "FlushTick" /\ gridApi

\* C1: when a flush window holds only update messages for a key, the row
\* after the flush is what the last of them alone makes of it: the update
\* itself for an absent key, the previous row overwritten by it otherwise.
C1_LastUpdateAloneDecides ==
  [][FlushStep =>
       \A k \in Keys :
         LET ms == RowsOf(DataOf(buffer), k)
             last == ms[Len(ms)]
             old == RowsOf(rowData, k)
         IN (ms # << >> /\ \A i \in 1..Len(ms) : ms[i].op = "update")
              => RowsOf(rowData', k) =
                   << IF old = << >> THEN last ELSE Spread(old[1], last) >>]_vars

\* C2: when a flush window holds both an update and a removal for a key, in
\* either order, the key is not in the table after the flush.
C2_RemovalWins ==
  [][FlushStep =>
       \A k \in Keys :
         LET ms == RowsOf(DataOf(buffer), k)
         IN ((\E i \in 1..Len(ms) : ms[i].op = "update")
               /\ (\E i \in 1..Len(ms) : ms[i].op = "remove"))
              => RowsOf(rowData', k) = << >>]_vars

\* C3: rowData$ never holds two rows with the same key.
C3_OneRowPerKey ==
  \A i, j \in 1..Len(rowData) :
    i # j => KeyOf(rowData[i]) # KeyOf(rowData[j])

\* C3 witness: two resident rows, one of them an earlier row overwritten by
\* an update of a later flush (price 12 over the row that had qty 5).
C3_Witness ==
  /\ Len(rowData) >= 2
  /\ \E i \in 1..Len(rowData) :
       rowData[i].key = "1" /\ rowData[i].price = "12" /\ rowData[i].qty = "5"

\* C4: while the pipeline runs, every message the topic subscription
\* delivered is in exactly one emitted batch or still waiting for one, in
\* arrival order.
C4_EveryMessageBatchedOnce ==
  ~destroyed => delivered = batched \o SeqsOf(buffer) \o SeqsOf(pending)

\* C5: a flush tick on an empty window emits no batch, leaves the table alone
\* and issues no grid transaction.
C5_EmptyTickDoesNothing ==
  [][lastAction' = "FlushTickEmpty" =>
       (batched' = batched /\ rowData' = rowData /\ gridCalls' = gridCalls)]_vars

\* C5 witness: an empty tick has fired with the grid ready and rows resident.
C5_Witness == lastAction = "FlushTickEmpty" /\ gridApi /\ rowData # << >>

\* C6: from ngOnDestroy on (the call itself included) no batch is emitted,
\* the table is not updated and no grid transaction is issued.
C6_NothingAfterDestroy ==
  [][(destroyed \/ destroyed') =>
       (batched' = batched /\ rowData' = rowData /\ gridCalls' = gridCalls)]_vars

\* C6 witness: the component was destroyed with the grid ready while its
\* newest message was still queued (it is in no emitted batch), and a message
\* has arrived since.
C6_Witness ==
  /\ destroyed /\ gridApi
  /\ delivered # << >>
  /\ delivered[Len(delivered)] \notin Range(batched)
  /\ lastAction = "HandleStreamMessage"

\* C7: the delay before retry n (n = 0, 1, 2, ...) is min(base * 2^n, cap),
\* the cap being four times the base (100, 200, 400, 400, ...).
C7_ExponentialBackoff ==
  \A i \in 1..Len(delays) :
    delays[i] = Min(ReconnectDelay(config) * 2^(i - 1), 4 * ReconnectDelay(config))

\* C8: the number of retries never exceeds config.reconnectAttempts.
C8_RetriesWithinConfig == Len(delays) <= config.reconnectAttempts

\* C9: when every attempt has failed and the retries are exhausted, the
\* subscriber of connect() has received an error as its last event.
C9_ExhaustionReportsError ==
  (connState = "done" /\ "next" \notin Range(callerEvents))
    => (callerEvents # << >> /\ callerEvents[Len(callerEvents)] = "error")

\* C10: after a retry that succeeded, the reconnect attempt counter is 0.
C10_CounterResetOnSuccess ==
  (lastAction = "BackoffElapsed" /\ connectionStatus) => reconnectAttempts = 0


\* The retries of the current connect() are used up and none succeeded: the
\* state the specification calls Failed.
Failed ==
  seen >= maxReconnectAttempts /\ "next" \notin Range(callerEvents)

\* C11: once the retries are exhausted the connection stays failed until
\* connect() is called again: it stays disconnected and no further attempt is
\* made.
C11_FailedIsStable ==
  [][(Failed /\ lastAction' # "ServiceConnect") =>
       (Failed' /\ ~connectionStatus' /\ seen' = seen /\ delays' = delays
          /\ callerEvents' = callerEvents)]_vars

\* C11 witness: the service was used (disconnect()) while failed.
C11_Witness == Failed /\ lastAction = "ServiceDisconnect"


\* C12: an operation that changes the connection state notifies the observers
\* exactly once, and an operation that leaves it unchanged notifies nobody.
C12_NotifyExactlyOnChange ==
  [][IF connectionStatus' # connectionStatus
       THEN Len(emitted') = 1
       ELSE emitted' = << >>]_vars


\* The timers of the pipeline: the flush timer and the backoff timer.
TimerActions == {"FlushTick", "FlushTickEmpty", "BackoffElapsed"}

\* C13: stop()/disconnect() leaves the service disconnected with attempt
\* counter 0 and no client, however often it is called and also when never
\* started, and until the next connect() no flush or backoff timer fires.
C13_StopIsIdempotentAndFinal ==
  /\ [](lastAction \in {"ServiceDisconnect", "NgOnDestroy"} =>
          (~connectionStatus /\ reconnectAttempts = 0 /\ ~rsocketClient))
  /\ [][stopped => lastAction' \notin TimerActions]_vars

\* The arrival numbers of the raw messages of the subscribed topic.
MatchingArrivals ==
  SelectSeq([i \in 1..Len(stream) |-> i],
            LAMBDA i : stream[i] = SubscribedTopic)

\* C14: while the component is subscribed, the messages delivered to its
\* subscription are exactly the raw messages whose topic is the subscribed
\* one, in the order in which they arrived; no other topic's message is
\* delivered and no matching message is left out.
C14_TopicSubscriptionIsExact == ~destroyed => delivered = MatchingArrivals

\* C14 witness: a message of another topic arrived first and was held back,
\* and the two messages of the subscribed topic after it were delivered.
C14_Witness ==
  /\ ~destroyed
  /\ Len(stream) >= 3
  /\ stream[1] # SubscribedTopic
  /\ delivered = << 2, 3 >>

\* C15: a message handled while the service is disconnected is not delivered
\* to the topic subscriptions.
C15_NoDeliveryWhileDisconnected ==
  [][(~connectionStatus /\ lastAction' = "HandleStreamMessage") =>
       delivered' = delivered]_vars

\* C16: of the messages of a flush window, every removal and the newest
\* message of every key reach the flush: each is among the rows handed to the
\* grid; only an update with a newer message for its key may be dropped.
C16_OnlySupersededUpdatesDropped ==
  [][FlushStep =>
       LET ms == DataOf(buffer)
       IN \A i \in 1..Len(ms) :
            (KeyOf(ms[i]) # Undefined
               /\ (ms[i].op = "remove"
                     \/ \A j \in (i + 1)..Len(ms) : KeyOf(ms[j]) # KeyOf(ms[i])))
              => ms[i] \in Range(lastCall'.rows)]_vars

\* C17: a batch is emitted as soon as the buffered messages reach the size
\* threshold (config.bufferSize, when one is configured), so the buffer never
\* holds more messages than the threshold.
C17_BufferWithinThreshold ==
  config.bufferSize > 0 => Len(buffer) <= config.bufferSize

\* The grid operation the rendering contract assigns to a row of a batch:
\* removeRows for a removal, updateRows for a resident key, addRows for a new
\* one.
OperationFor(u) ==
  IF u.op = "remove" THEN "removeRows"
  ELSE IF RowsOf(rowData, KeyOf(u)) # << >> THEN "updateRows"
  ELSE "addRows"

\* C18: a flush issues one grid transaction derived from the merged batch, in
\* which each row key appears at most once and every row goes through the
\* operation of its kind: addRows for a new key, updateRows for a resident
\* key, removeRows for a removed key.
C18_OneTransactionPerFlush ==
  [][FlushStep =>
       LET rows == lastCall'.rows
       IN /\ gridCalls' = gridCalls + 1
          /\ \A i, j \in 1..Len(rows) :
               i # j => KeyOf(rows[i]) # KeyOf(rows[j])
          /\ \A i \in 1..Len(rows) :
               lastCall'.op = OperationFor(rows[i])]_vars

\* The rows the grid shows under its filter model: all of them under the null
\* model, those whose column equals the filter value otherwise.
VisibleRows ==
  IF filterModel = << >>
    THEN rowData
    ELSE SelectSeq(rowData,
                   LAMBDA r : r[filterModel[1].column] = filterModel[1].filter)

\* C19: applyFilter and clearFilters leave the table (its keys and every
\* row's fields) as it was, and after clearFilters the grid shows every row
\* of the table again.
C19_FilterChangesOnlyTheView ==
  /\ [][lastAction' \in {"ApplyFilter", "ClearFilters"} =>
          rowData' = rowData]_vars
  /\ []((lastAction = "ClearFilters" /\ gridApi) => VisibleRows = rowData)

\* C19 witness: applyFilter has acted on a table of two rows and the grid
\* shows only one of them.
C19_Witness ==
  /\ lastAction = "ApplyFilter"
  /\ Len(rowData) = 2
  /\ Len(VisibleRows) = 1

\* C20: a reader sees the table as it was when the flush began or as the
\* whole batch makes it, never a table with part of the batch applied; while
\* a flush is in progress the table is the one from before it; and a flush
\* begins only when none is in progress.
C20_SnapshotIsolation ==
  /\ [](pc = "merging" => rowData = before)
  /\ [](lastAction = "ReadTable" =>
          observed \in {before, ApplyUpdatesToData(before, flushed)})
  /\ [][pc' = "merging" /\ lastAction' = "FlushBegin" => pc = "idle"]_vars

\* C20 witness: the reader ran in the middle of a flush of two rows over a
\* non-empty table, after the first row was merged and before the second.
C20_Witness ==
  /\ lastAction = "ReadTable"
  /\ pc = "merging"
  /\ Len(flushed) = 2 /\ Len(work) = 1
  /\ before # << >>

\* C21: a message without a key is dropped and affects nothing: no row
\* without a key is in the table, and none is among the rows handed to the
\* grid.
C21_MalformedMessageDropped ==
  /\ \A i \in 1..Len(rowData) : KeyOf(rowData[i]) # Undefined
  /\ \A i \in 1..Len(lastCall.rows) : KeyOf(lastCall.rows[i]) # Undefined

\* C22: onClick emits clicked exactly once if the button is neither disabled
\* nor loading, and otherwise emits nothing; it changes no state.
C22_ClickOnlyWhenInteractive ==
  [][lastAction' = "OnClick" =>
       /\ outputs' = IF ~disabled /\ ~loading
                       THEN << [event |-> "clicked", value |-> << >>] >>
                       ELSE << >>
       /\ UNCHANGED << buttonVars, query >>]_vars

\* C22 witness: the button was clicked while loading and not disabled, and
\* nothing was emitted.
C22_Witness ==
  lastAction = "OnClick" /\ loading /\ ~disabled /\ outputs = << >>

\* r is t without its leading and trailing whitespace.
IsTrimmed(t, r) ==
  \E i \in 1..(Len(t) + 1) :
    \E j \in (i - 1)..Len(t) :
      /\ r = SubSeq(t, i, j)
      /\ \A k \in 1..(i - 1) : t[k] \in Whitespace
      /\ \A k \in (j + 1)..Len(t) : t[k] \in Whitespace
      /\ r # << >> => (r[1] \notin Whitespace /\ r[Len(r)] \notin Whitespace)

\* C23: onSubmit emits search, once and with the trimmed query, exactly when
\* the query is not null and has a character that is not whitespace, and
\* leaves the query alone; onClear leaves the query without a value and emits
\* clear exactly once.
C23_SubmitTrimmedClearResets ==
  /\ [][lastAction' = "OnSubmit" =>
          /\ query' = query
          /\ IF ~query.isNull /\ (\E k \in 1..Len(query.text) :
                                     query.text[k] \notin Whitespace)
               THEN /\ Len(outputs') = 1
                    /\ outputs'[1].event = "search"
                    /\ IsTrimmed(query.text, outputs'[1].value)
               ELSE outputs' = << >>]_vars
  /\ [][lastAction' = "OnClear" =>
          /\ ~HasValue(query')
          /\ outputs' = << [event |-> "clear", value |-> << >>] >>]_vars

\* C23 witness: a query with whitespace on both sides was submitted and
\* search was emitted with the text between.
C23_Witness ==
  /\ lastAction = "OnSubmit"
  /\ query = Str(<< " ", "a", "\t" >>)
  /\ outputs = << [event |-> "search", value |-> << "a" >>] >>

\* C24: Cancel leaves orderedLenders with exactly the order and the
\* tie-breaker numbers it had right after initialisation and emits nothing
\* on save; and no drag, cancel or save modifies the input lenders list or
\* its objects.
C24_CancelDiscardsChanges ==
  /\ [][lastAction' = "OnCancel" =>
          /\ LenderValues(heap', orderedLenders') = initialOrder
          /\ \A i \in 1..Len(outputs') : outputs'[i].event # "save"]_vars
  /\ [][dialogInited =>
          /\ lenders' = lenders
          /\ LenderValues(heap', lenders') = LenderValues(heap, lenders)]_vars

\* C24 witness: Cancel was pressed after a drag had renumbered the rows of a
\* list that ngOnInit had reordered (the second lender, without a number,
\* came first).
C24_Witness ==
  /\ lastAction = "OnCancel"
  /\ dragged
  /\ LenderValues(heap, lenders)
       = << [id |-> 1, tieBreakerOrder |-> 2], [id |-> 2, tieBreakerOrder |-> 0] >>

\* The staged TypeScript files that are not spec files, and those of them
\* without a spec file in the working tree.
StagedSources ==
  { gitOutput[i] : i \in 1..Len(gitOutput) } \cap
    { f \in FileNames : f[Len(f)] = "ts" /\ f[Len(f) - 1] # "spec" }

LackingSpec ==
  { f \in StagedSources :
      ~\E g \in disk :
         /\ Len(g) = Len(f) + 1
         /\ SubSeq(g, 1, Len(f) - 1) = SubSeq(f, 1, Len(f) - 1)
         /\ g[Len(f)] = "spec" /\ g[Len(g)] = "ts" }

ConnectionState ==
  IF connectionStatus THEN "Connected"
  ELSE IF stopped \/ connState \in {"idle", "cancelled"} THEN "Disconnected"
  ELSE IF connState = "waiting" THEN "Reconnecting"
  ELSE IF Failed THEN "Failed"
  ELSE "Disconnected"

ConnectActions == {"NgOnInit", "ServiceConnect"}

DisconnectActions == {"ServiceDisconnect", "NgOnDestroy"}

\* C26: the connection state changes only along the listed transitions: a
\* connect() starts an attempt (Connecting), which ends Connected, or, having
\* failed, Reconnecting or Failed; the elapsed backoff starts an attempt from
\* Reconnecting only; a disconnect leads to Disconnected; and the state is
\* Connected only while a transport client exists.
C26_ListedTransitionsOnly ==
  /\ [](connectionStatus => rsocketClient)
  /\ [][ConnectionState' # ConnectionState =>
          \/ lastAction' \in ConnectActions /\ ConnectionState' # "Disconnected"
          \/ /\ lastAction' = "BackoffElapsed"
             /\ ConnectionState = "Reconnecting"
             /\ ConnectionState' \in {"Connected", "Failed"}
          \/ lastAction' \in DisconnectActions
               /\ ConnectionState' = "Disconnected"]_vars

\* C27: a flush handles every key by the case of the key's message in the
\* merged batch (its last message of the window): a removal leaves no row of
\* the key, whether one was resident or not; an update of an absent key
\* creates the row; an update of a resident key overwrites the fields of the
\* existing row; a key without a message keeps its rows.
C27_FourCasesPerKey ==
  [][FlushStep =>
       \A k \in Keys :
         LET ms == RowsOf(DataOf(buffer), k)
             last == ms[Len(ms)]
             old == RowsOf(rowData, k)
             new == RowsOf(rowData', k)
         IN IF ms = << >> THEN new = old
            ELSE IF last.op = "remove" THEN new = << >>
            ELSE IF old = << >> THEN new = << last >>
            ELSE new = << Spread(old[1], last) >>]_vars

\* C28: in a flush no key is both added and updated (the code removes no
\* key, so these are the only two lists of its Diff): the keys that
\* applyUpdatesToData adds as new and the keys whose resident row it updates
\* are disjoint.
C28_DiffListsDisjoint ==
  [][FlushStep =>
       LET diff == BranchesTaken(DataMapOf(<< >>, rowData),
                                 MergeUpdates(DataOf(buffer)),
                                 [added |-> {}, updated |-> {}])
       IN (diff.added \cap diff.updated) \ {Undefined} = {}]_vars

\* C29: an update of a resident key overwrites the row field by field: a
\* field the update mentions takes the update's value as it is (a value is
\* one whole, whatever it holds), and a field it does not mention keeps the
\* value of the existing row.
C29_ShallowOverwrite ==
  [][(pc = "merging" /\ lastAction' = "MergeOne"
        /\ MapHas(localMap, IdOf(Head(work)))) =>
       LET update == Head(work)
           old == MapGet(localMap, IdOf(update))
           new == MapGet(localMap', IdOf(update))
       IN \A f \in Fields :
            /\ update[f] # Undefined => new[f] = update[f]
            /\ update[f] = Undefined => new[f] = old[f]]_vars

\* C29 witness: the row of key 1, resident with price 10 and qty 5, was
\* updated with price 12 alone: the price is the new one and qty is kept.
C29_Witness ==
  /\ lastAction = "MergeOne"
  /\ before # << >>
  /\ before[1].key = "1" /\ before[1].price = "10" /\ before[1].qty = "5"
  /\ flushed = << [id |-> Undefined, key |-> "1", op |-> "update",
                   price |-> "12", qty |-> Undefined] >>
  /\ localMap[1].v.price = "12" /\ localMap[1].v.qty = "5"

\* C30: when the batch that was applied to the empty table comes again
\* unchanged, the flush issues no grid transaction.
C30_NoOpFlushIsSilent ==
  [][(lastAction' = "FlushBegin" /\ gridApi
        /\ before = << >> /\ flushed # << >>
        /\ rowData = ApplyUpdatesToData(<< >>, flushed)
        /\ MergeUpdates(DataOf(buffer)) = flushed) =>
       gridCalls' = gridCalls]_vars

\* C31: a message the transport hands over after disconnect() (before the
\* next connect()) is ignored: it is not delivered to the topic subscription,
\* not queued for a batch, and changes neither the table nor the grid.
C31_InFlightMessageIgnored ==
  [][(stopped /\ lastAction' = "HandleStreamMessage") =>
       /\ delivered' = delivered
       /\ pending' = pending /\ buffer' = buffer
       /\ rowData' = rowData /\ gridCalls' = gridCalls]_vars

\* C32: a completed row drag (the row was dropped over a row) leaves the
\* displayed rows a permutation of the rows before it, numbered 1, 2, ..., n
\* from the top, and makes them orderedLenders; Save pressed then emits
\* exactly that list.
C32_DragRenumbersFromOne ==
  /\ [][lastAction' = "OnRowDragEnd" =>
          /\ Len(gridRows') = Len(gridRows)
          /\ Range(gridRows') = Range(gridRows)
          /\ orderedLenders' = gridRows'
          /\ \A i \in 1..Len(gridRows') :
               heap'[gridRows'[i]] =
                 [id |-> heap[gridRows'[i]].id, tieBreakerOrder |-> i]]_vars
  /\ [][(lastAction = "OnRowDragEnd" /\ lastAction' = "OnSave") =>
          outputs' =
            << [event |-> "save",
                value |-> [i \in 1..Len(gridRows) |->
                             [id |-> heap[gridRows[i]].id,
                              tieBreakerOrder |-> i]]] >>]_vars

\* C32 witness: two lenders that both came with the number 2; the first row
\* was dragged below the second, and Save emitted lender 2 with number 1 and
\* lender 1 with number 2.
C32_Witness ==
  /\ lastAction = "OnSave"
  /\ initialOrder = << [id |-> 1, tieBreakerOrder |-> 2],
                       [id |-> 2, tieBreakerOrder |-> 2] >>
  /\ outputs = << [event |-> "save",
                   value |-> << [id |-> 2, tieBreakerOrder |-> 1],
                                [id |-> 1, tieBreakerOrder |-> 2] >>] >>

\* C33: from onSaveTieBreaker until the API answers isSaving is true; the
\* answer, of either kind, sets it to false, and it is true at no other time;
\* a success closes the dialog, an error leaves it as it is.
C33_SavingFlagFollowsRequest ==
  /\ [][lastAction' = "OnSaveTieBreaker" => isSaving']_vars
  /\ [](isSaving <=> putRequests # << >>)
  /\ [][lastAction' = "SaveSucceeded" =>
          (~isSaving' /\ ~showTieBreakerDialog')]_vars
  /\ [][lastAction' = "SaveFailed" =>
          (~isSaving' /\ showTieBreakerDialog' = showTieBreakerDialog)]_vars

\* C33 witness: the API answered a save with an error; the dialog is open and
\* isSaving is false.
C33_Witness ==
  lastAction = "SaveFailed" /\ showTieBreakerDialog /\ ~isSaving

C34_NoBatchDiscarded ==
  [][lastAction' = "FlushTick" =>
       rowData' = ApplyUpdatesToData(rowData, MergeUpdates(DataOf(buffer)))]_vars

\* The keys of the rows of a table.
KeySet(rows) == { KeyOf(rows[i]) : i \in 1..Len(rows) }

\* C35: no step takes a key out of the table: every key resident before it
\* is resident after it.
C35_KeySetNeverShrinks == [][KeySet(rowData) \subseteq KeySet(rowData')]_vars

\* C35 witness: a flush has merged a removal of key 1 onto the resident row
\* of key 1, which is still there with its price and quantity.
C35_Witness ==
  /\ lastAction = "FlushTick"
  /\ \E i \in 1..Len(rowData) :
       /\ rowData[i].key = "1" /\ rowData[i].op = "remove"
       /\ rowData[i].price = "10" /\ rowData[i].qty = "5"

\* C36: the key 0 is a key like any other: when a flush window holds only
\* updates for key 0, the merged batch handed to the grid holds exactly the
\* last of them, and the table then holds one row of key 0, made of the last
\* update alone (on its own for an absent key, over the resident row
\* otherwise).
C36_KeyZeroIsAKey ==
  [][FlushStep =>
       LET ms == RowsOf(DataOf(buffer), "0")
           last == ms[Len(ms)]
           old == RowsOf(rowData, "0")
       IN (ms # << >> /\ \A i \in 1..Len(ms) : ms[i].op = "update")
            => /\ RowsOf(lastCall'.rows, "0") = << last >>
               /\ RowsOf(rowData', "0") =
                    << IF old = << >> THEN last ELSE Spread(old[1], last) >>]_vars

\* C37: ngOnInit leaves orderedLenders with tie-breaker numbers that are
\* positive, pairwise distinct and ascending down the list.
C37_InitialOrderDistinctAscending ==
  lastAction = "DialogInit" =>
    LET numbers == [i \in 1..Len(orderedLenders) |->
                      heap[orderedLenders[i]].tieBreakerOrder]
    IN /\ \A i \in 1..Len(numbers) : numbers[i] > 0
       /\ \A i, j \in 1..Len(numbers) : i < j => numbers[i] < numbers[j]

\* The valueChange events among the events of a handler.
ValueChangeEvents(events) == SelectSeq(events, LAMBDA e : e.event = "valueChange")

\* C38: from ngOnDestroy on (the call itself included) valueChange emits
\* nothing, whatever was waiting in the debounce period; while the form is
\* alive a valueChange event never carries the value of the event before it,
\* and it is emitted only by the elapsed debounce period, never by the change
\* itself, and carries the newest value of the query.
C38_ValueChangeDebouncedDistinct ==
  /\ [][formDestroyed' => ValueChangeEvents(outputs') = << >>]_vars
  /\ [][ValueChangeEvents(outputs') # << >> =>
          /\ Len(outputs') = 1
          /\ lastValueChange # << >> => outputs'[1].value # lastValueChange[1]
          /\ lastAction' = "QueryDebounceElapsed"
          /\ query' = query
          /\ outputs'[1].value = query]_vars

\* C38 witness: the form was destroyed after valueChange had emitted "a" and
\* the query had changed since to a value that was never emitted: the change
\* was waiting in the debounce period, and it is gone.
C38_Witness ==
  /\ lastAction = "FormDestroy"
  /\ lastValueChange = << Str(<< "a" >>) >>
  /\ query = Str(<< "a", " " >>)
  /\ heldQuery = << >>

=============================================================================
